---- MODULE Spec2Model ----
(***************************************************************************)
(* Option normalisation and process-invocation bridge of the wallet        *)
(* conformance test tool: src/cli/options.ts (normalizeCliOptions,         *)
(* setEnvFromOptions), the wct command line entry point and the HTTP       *)
(* server src/cli-server.ts.                                               *)
(*                                                                         *)
(* JavaScript strings are modelled as sequences of one-character strings,  *)
(* so that parsing (Number.parseInt), formatting (toString, String) and    *)
(* trimming are computed character by character.  JavaScript values are    *)
(* tagged records.                                                         *)
(***************************************************************************)
EXTENDS Integers, Sequences, FiniteSets, TLC

(***************************************************************************)
(* JavaScript values                                                       *)
(***************************************************************************)
Undefined == [t |-> "undefined"]
Null == [t |-> "null"]
Bool(b) == [t |-> "boolean", b |-> b]
Str(s) == [t |-> "string", s |-> s]
\* A number is an integer n, the non-integer n + 0.5, +Infinity or NaN.
NumInt(n) == [t |-> "number", k |-> "int", n |-> n]
NumHalf(n) == [t |-> "number", k |-> "half", n |-> n]
Infinity == [t |-> "number", k |-> "inf", n |-> 0]
NaN == [t |-> "number", k |-> "nan", n |-> 0]
Arr(a) == [t |-> "array", a |-> a]
Obj == [t |-> "object"]

IsNaN(v) == v.t = "number" /\ v.k = "nan"

Digits == <<"0", "1", "2", "3", "4", "5", "6", "7", "8", "9">>
IsDigit(c) == \E d \in DOMAIN Digits : Digits[d] = c
DigitVal(c) == (CHOOSE d \in DOMAIN Digits : Digits[d] = c) - 1

WhiteSpace == {" ", "\t"}

UpperCase == <<"A", "B", "C", "D", "E", "F", "G", "H", "I", "J", "K", "L", "M",
               "N", "O", "P", "Q", "R", "S", "T", "U", "V", "W", "X", "Y", "Z">>
LowerCase == <<"a", "b", "c", "d", "e", "f", "g", "h", "i", "j", "k", "l", "m",
               "n", "o", "p", "q", "r", "s", "t", "u", "v", "w", "x", "y", "z">>

RECURSIVE TrimStart(_)
TrimStart(s) ==
  IF s # <<>> /\ Head(s) \in WhiteSpace THEN TrimStart(Tail(s)) ELSE s

RECURSIVE TrimEnd(_)
TrimEnd(s) ==
  IF s # <<>> /\ s[Len(s)] \in WhiteSpace
  THEN TrimEnd(SubSeq(s, 1, Len(s) - 1))
  ELSE s

\* String.prototype.trim
Trim(s) == TrimEnd(TrimStart(s))

\* String.prototype.toLowerCase
ToLowerCase(s) ==
  [i \in DOMAIN s |->
     IF \E u \in DOMAIN UpperCase : UpperCase[u] = s[i]
     THEN LowerCase[CHOOSE u \in DOMAIN UpperCase : UpperCase[u] = s[i]]
     ELSE s[i]]

RECURSIVE DigitPrefix(_)
DigitPrefix(s) ==
  IF s # <<>> /\ IsDigit(Head(s))
  THEN <<Head(s)>> \o DigitPrefix(Tail(s))
  ELSE <<>>

RECURSIVE DigitsValue(_, _)
DigitsValue(s, acc) ==
  IF s = <<>> THEN acc ELSE DigitsValue(Tail(s), acc * 10 + DigitVal(Head(s)))

\* Number.parseInt(string, 10): leading white space is skipped, one sign is
\* read, then the longest run of decimal digits; NaN when that run is empty.
\* The inputs of the model are a few characters long, far from the range
\* where a double loses integer precision.
parseInt(s) ==
  LET t == TrimStart(s)
      neg == t # <<>> /\ Head(t) = "-"
      u == IF t # <<>> /\ Head(t) \in {"-", "+"} THEN Tail(t) ELSE t
      z == DigitPrefix(u)
  IN  IF z = <<>> THEN NaN
      ELSE NumInt(IF neg THEN 0 - DigitsValue(z, 0) ELSE DigitsValue(z, 0))

RECURSIVE NatToString(_)
NatToString(n) ==
  IF n < 10 THEN <<Digits[n + 1]>>
  ELSE NatToString(n \div 10) \o <<Digits[(n % 10) + 1]>>

\* Number.prototype.toString
NumberToString(v) ==
  CASE v.k = "int" ->
         IF v.n < 0 THEN <<"-">> \o NatToString(0 - v.n) ELSE NatToString(v.n)
    [] v.k = "half" -> NatToString(v.n) \o <<".", "5">>
    [] v.k = "inf" -> <<"I", "n", "f", "i", "n", "i", "t", "y">>
    [] v.k = "nan" -> <<"N", "a", "N">>

\* Boolean.prototype.toString
BooleanToString(b) ==
  IF b THEN <<"t", "r", "u", "e">> ELSE <<"f", "a", "l", "s", "e">>

RECURSIVE Join(_, _)
Join(strs, sep) ==
  IF strs = <<>> THEN <<>>
  ELSE IF Len(strs) = 1 THEN strs[1]
  ELSE strs[1] \o sep \o Join(Tail(strs), sep)

\* String(value) for the values an array element or a scalar can be.
ScalarToString(v) ==
  CASE v.t = "string" -> v.s
    [] v.t = "number" -> NumberToString(v)
    [] v.t = "boolean" -> BooleanToString(v.b)
    [] v.t = "null" -> <<"n", "u", "l", "l">>
    [] v.t = "undefined" -> <<"u", "n", "d", "e", "f", "i", "n", "e", "d">>
    [] v.t = "object" ->
         <<"[", "o", "b", "j", "e", "c", "t", " ", "O", "b", "j", "e", "c", "t", "]">>

\* String(value); an array's own toString joins with commas and prints
\* null and undefined elements as the empty string.
String(v) ==
  IF v.t = "array"
  THEN Join([i \in DOMAIN v.a |->
               IF v.a[i].t \in {"null", "undefined"} THEN <<>>
               ELSE ScalarToString(v.a[i])], <<",">>)
  ELSE ScalarToString(v)

(***************************************************************************)
(* src/cli/options.ts                                                      *)
(***************************************************************************)
optionAliases ==
  [fileIni |-> <<"fileIni", "file-ini">>,
   credentialIssuerUri |-> <<"credentialIssuerUri", "credential-issuer-uri">>,
   presentationAuthorizeUri |->
     <<"presentationAuthorizeUri", "presentation-authorize-uri">>,
   credentialTypes |-> <<"credentialTypes", "credential-types">>,
   timeout |-> <<"timeout">>,
   maxRetries |-> <<"maxRetries", "max-retries">>,
   logLevel |-> <<"logLevel", "log-level">>,
   logFile |-> <<"logFile", "log-file">>,
   port |-> <<"port">>,
   saveCredential |-> <<"saveCredential", "save-credential">>]

truthyValues == {<<"t", "r", "u", "e">>, <<"1">>, <<"y", "e", "s">>}
falsyValues == {<<"f", "a", "l", "s", "e">>, <<"0">>, <<"n", "o">>}

\* A coercion that can fail returns the value and the errors array after it.
coerceBoolean(value, optionName, errors) ==
  IF value.t \in {"undefined", "null"}
  THEN [value |-> Undefined, errors |-> errors]
  ELSE IF value.t = "boolean"
  THEN [value |-> value, errors |-> errors]
  ELSE IF value.t = "string" /\ ToLowerCase(Trim(value.s)) \in truthyValues
  THEN [value |-> Bool(TRUE), errors |-> errors]
  ELSE IF value.t = "string" /\ ToLowerCase(Trim(value.s)) \in falsyValues
  THEN [value |-> Bool(FALSE), errors |-> errors]
  ELSE [value |-> Undefined,
        errors |-> Append(errors, "Invalid boolean value for " \o optionName \o ".")]

\* Mutants of coerceNumber: the empty string is no longer let through as
\* absent; a number is returned without the NaN test.
coerceNumberEmptyInvalid(value, optionName, errors) ==
  IF value.t \in {"undefined", "null"}
  THEN [value |-> Undefined, errors |-> errors]
  ELSE IF value.t = "number" /\ ~IsNaN(value)
  THEN [value |-> value, errors |-> errors]
  ELSE IF value.t = "string" /\ ~IsNaN(parseInt(value.s))
  THEN [value |-> parseInt(value.s), errors |-> errors]
  ELSE [value |-> Undefined,
        errors |-> Append(errors, "Invalid numeric value for " \o optionName \o ".")]

coerceNumberKeepNaN(value, optionName, errors) ==
  IF value.t \in {"undefined", "null"} \/ (value.t = "string" /\ value.s = <<>>)
  THEN [value |-> Undefined, errors |-> errors]
  ELSE IF value.t = "number"
  THEN [value |-> value, errors |-> errors]
  ELSE IF value.t = "string" /\ ~IsNaN(parseInt(value.s))
  THEN [value |-> parseInt(value.s), errors |-> errors]
  ELSE [value |-> Undefined,
        errors |-> Append(errors, "Invalid numeric value for " \o optionName \o ".")]

coerceNumber(value, optionName, errors) ==
  IF value.t \in {"undefined", "null"} \/ (value.t = "string" /\ value.s = <<>>)
  THEN [value |-> Undefined, errors |-> errors]
  ELSE IF value.t = "number" /\ ~IsNaN(value)
  THEN [value |-> value, errors |-> errors]
  ELSE IF value.t = "string" /\ ~IsNaN(parseInt(value.s))
  THEN [value |-> parseInt(value.s), errors |-> errors]
  ELSE [value |-> Undefined,
        errors |-> Append(errors, "Invalid numeric value for " \o optionName \o ".")]

coerceString(value) ==
  IF value.t \in {"undefined", "null"} THEN Undefined
  ELSE IF value.t = "array"
  THEN Str(Join([i \in DOMAIN value.a |-> ScalarToString(value.a[i])], <<",">>))
  ELSE Str(String(value))

\* Mutant of getRawValue: the last alias present wins.
RECURSIVE getRawValueLastWins(_, _)
getRawValueLastWins(input, aliases) ==
  IF aliases = <<>> THEN Undefined
  ELSE IF aliases[Len(aliases)] \in DOMAIN input THEN input[aliases[Len(aliases)]]
  ELSE getRawValueLastWins(input, SubSeq(aliases, 1, Len(aliases) - 1))

\* An input is a function from the keys it carries to their values.
RECURSIVE getRawValue(_, _)
getRawValue(input, aliases) ==
  IF aliases = <<>> THEN Undefined
  ELSE IF Head(aliases) \in DOMAIN input THEN input[Head(aliases)]
  ELSE getRawValue(input, Tail(aliases))

normalizeCliOptions(input) ==
  LET timeout == coerceNumber(getRawValue(input, optionAliases.timeout),
                              "timeout", <<>>)
      maxRetries == coerceNumber(getRawValue(input, optionAliases.maxRetries),
                                 "max-retries", timeout.errors)
      port == coerceNumber(getRawValue(input, optionAliases.port),
                           "port", maxRetries.errors)
      saveCredential ==
        coerceBoolean(getRawValue(input, optionAliases.saveCredential),
                      "save-credential", port.errors)
  IN  [options |->
         [fileIni |-> coerceString(getRawValue(input, optionAliases.fileIni)),
          credentialIssuerUri |->
            coerceString(getRawValue(input, optionAliases.credentialIssuerUri)),
          presentationAuthorizeUri |->
            coerceString(getRawValue(input, optionAliases.presentationAuthorizeUri)),
          credentialTypes |->
            coerceString(getRawValue(input, optionAliases.credentialTypes)),
          timeout |-> timeout.value,
          maxRetries |-> maxRetries.value,
          logLevel |-> coerceString(getRawValue(input, optionAliases.logLevel)),
          logFile |-> coerceString(getRawValue(input, optionAliases.logFile)),
          port |-> port.value,
          saveCredential |-> saveCredential.value],
       errors |-> saveCredential.errors]

\* process.cwd()
cwd == <<"/", "w">>

RECURSIVE SplitPath(_, _)
SplitPath(s, cur) ==
  IF s = <<>> THEN <<cur>>
  ELSE IF Head(s) = "/" THEN <<cur>> \o SplitPath(Tail(s), <<>>)
  ELSE SplitPath(Tail(s), Append(cur, Head(s)))

RECURSIVE NormalizeSegments(_, _)
NormalizeSegments(segs, acc) ==
  IF segs = <<>> THEN acc
  ELSE IF Head(segs) = <<>> \/ Head(segs) = <<".">>
  THEN NormalizeSegments(Tail(segs), acc)
  ELSE IF Head(segs) = <<".", ".">>
  THEN NormalizeSegments(Tail(segs),
                         IF acc = <<>> THEN acc ELSE SubSeq(acc, 1, Len(acc) - 1))
  ELSE NormalizeSegments(Tail(segs), Append(acc, Head(segs)))

\* path.resolve(from, to) on POSIX, from being absolute.
resolve(from, to) ==
  LET joined == IF to # <<>> /\ Head(to) = "/" THEN to ELSE from \o <<"/">> \o to
  IN  <<"/">> \o Join(NormalizeSegments(SplitPath(joined, <<>>), <<>>), <<"/">>)

\* JavaScript truthiness, the test of `if (options.fileIni)`.
Truthy(v) ==
  CASE v.t = "string" -> v.s # <<>>
    [] v.t = "number" -> ~(IsNaN(v) \/ (v.k = "int" /\ v.n = 0))
    [] v.t = "boolean" -> v.b
    [] v.t \in {"undefined", "null"} -> FALSE
    [] OTHER -> TRUE

\* env.KEY = value
EnvPut(env, k, v) == [x \in DOMAIN env \cup {k} |-> IF x = k THEN v ELSE env[x]]

\* Mutant of WritesDefined: the truthiness test of the string fields.
WritesTruthyOnly(v) == Truthy(v)

\* `if (options.timeout !== undefined)`: the test guarding a numeric or
\* boolean field's key.
WritesDefined(v) == v # Undefined

\* The overlay setEnvFromOptions builds on `base`.
EnvOverlay(options, base) ==
  LET e1 == IF Truthy(options.fileIni)
            THEN EnvPut(base, "CONFIG_FILE_INI", resolve(cwd, String(options.fileIni)))
            ELSE base
      e2 == IF Truthy(options.credentialIssuerUri)
            THEN EnvPut(e1, "CONFIG_CREDENTIAL_ISSUER_URI",
                        String(options.credentialIssuerUri))
            ELSE e1
      e3 == IF Truthy(options.presentationAuthorizeUri)
            THEN EnvPut(e2, "CONFIG_PRESENTATION_AUTHORIZE_URI",
                        String(options.presentationAuthorizeUri))
            ELSE e2
      e4 == IF Truthy(options.credentialTypes)
            THEN EnvPut(e3, "CONFIG_CREDENTIAL_TYPES", String(options.credentialTypes))
            ELSE e3
      e5 == IF WritesDefined(options.timeout)
            THEN EnvPut(e4, "CONFIG_TIMEOUT", NumberToString(options.timeout))
            ELSE e4
      e6 == IF WritesDefined(options.maxRetries)
            THEN EnvPut(e5, "CONFIG_MAX_RETRIES", NumberToString(options.maxRetries))
            ELSE e5
      e7 == IF Truthy(options.logLevel)
            THEN EnvPut(e6, "CONFIG_LOG_LEVEL", String(options.logLevel))
            ELSE e6
      e8 == IF Truthy(options.logFile)
            THEN EnvPut(e7, "CONFIG_LOG_FILE", String(options.logFile))
            ELSE e7
      e9 == IF WritesDefined(options.port)
            THEN EnvPut(e8, "CONFIG_PORT", NumberToString(options.port))
            ELSE e8
  IN  IF WritesDefined(options.saveCredential)
      THEN EnvPut(e9, "CONFIG_SAVE_CREDENTIAL",
                  BooleanToString(options.saveCredential.b))
      ELSE e9

\* Mutant of setEnvFromOptions: `const env = process.env`, the keys are
\* written into the ambient environment itself.
setEnvFromOptionsInPlace(options, penv) ==
  [env |-> EnvOverlay(options, penv), processEnv |-> EnvOverlay(options, penv)]

\* setEnvFromOptions(options) with process.env = penv: the environment it
\* returns and process.env after the call.  `{ ...process.env }` is a fresh
\* object, so the assignments never reach process.env.
setEnvFromOptions(options, penv) ==
  [env |-> EnvOverlay(options, penv), processEnv |-> penv]

(***************************************************************************)
(* State                                                                   *)
(***************************************************************************)
VARIABLES
  processEnv,  \* process.env, the ambient environment of the running process
  norm,        \* one call of normalizeCliOptions: its input and what it returned
  proj,        \* one call of setEnvFromOptions: its options and what it returned
  cli,         \* one run of the wct command line tool
  req          \* the HTTP server's test-endpoint requests

vars == <<processEnv, norm, proj, cli, req>>

Idle == [pc |-> "unused"]

OptionFields == DOMAIN optionAliases
StringFields ==
  {"fileIni", "credentialIssuerUri", "presentationAuthorizeUri",
   "credentialTypes", "logLevel", "logFile"}
NumberFields == {"timeout", "maxRetries", "port"}

\* The key setEnvFromOptions writes for each field.
ConfigKey ==
  [fileIni |-> "CONFIG_FILE_INI",
   credentialIssuerUri |-> "CONFIG_CREDENTIAL_ISSUER_URI",
   presentationAuthorizeUri |-> "CONFIG_PRESENTATION_AUTHORIZE_URI",
   credentialTypes |-> "CONFIG_CREDENTIAL_TYPES",
   timeout |-> "CONFIG_TIMEOUT",
   maxRetries |-> "CONFIG_MAX_RETRIES",
   logLevel |-> "CONFIG_LOG_LEVEL",
   logFile |-> "CONFIG_LOG_FILE",
   port |-> "CONFIG_PORT",
   saveCredential |-> "CONFIG_SAVE_CREDENTIAL"]

AbsentOptions == [f \in OptionFields |-> Undefined]

\* Ambient environments: without and with CONFIG_* keys already set.
AmbientEnvs ==
  {[PATH |-> <<"/", "b", "i", "n">>],
   [PATH |-> <<"/", "b", "i", "n">>,
    CONFIG_TIMEOUT |-> <<"9", "9">>,
    CONFIG_LOG_LEVEL |-> <<"I", "N", "F", "O">>,
    CONFIG_FILE_INI |-> <<"/", "o", "l", "d">>],
   [HOME |-> <<"/", "h">>, CONFIG_SAVE_CREDENTIAL |-> <<"t", "r", "u", "e">>,
    CONFIG_PORT |-> <<"8", "0">>]}

(***************************************************************************)
(* Bounds of the model                                                     *)
(***************************************************************************)
\* Longest raw string enumerated character by character.
MaxStrLen == 2
\* Concurrent HTTP requests.
NumRequests == 2
\* Data chunks a child writes to its stdout and stderr together.
MaxChunks == 1

(***************************************************************************)
(* normalizeCliOptions as a state machine: Init draws the raw input.       *)
(***************************************************************************)
RawAlphabet == {"1", "7", "a", " ", "-", "."}
RawStrings == UNION {[1..k -> RawAlphabet] : k \in 0..MaxStrLen}

RawValues ==
  {Undefined, Null, Bool(TRUE), Bool(FALSE),
   NumInt(0), NumInt(30), NumInt(0 - 1), NumHalf(1), Infinity, NaN,
   Arr(<<>>), Arr(<<Str(<<"1">>), NumInt(2)>>), Obj,
   Str(<<" ", "Y", "e", "s", " ">>), Str(<<"T", "R", "U", "E">>),
   Str(<<"n", "o">>), Str(<<"0">>), Str(<<"f", "a", "l", "s", "e">>),
   Str(<<"m", "a", "y", "b", "e">>), Str(<<"3", "0">>), Str(<<"+", "5">>)}
  \cup {Str(s) : s \in RawStrings}

AliasValues ==
  {Undefined, Null, Bool(TRUE), NumInt(5), NumHalf(1), Str(<<>>), Str(<<"5">>),
   Str(<<"7">>), Str(<<"x">>), Str(<<"y", "e", "s">>)}

AllKeys == UNION {{optionAliases[f][a] : a \in DOMAIN optionAliases[f]} : f \in OptionFields}
AliasedFields == {f \in OptionFields : Len(optionAliases[f]) = 2}

EmptyInput == [k \in {} |-> Undefined]

NormInputs ==
  {EmptyInput}
  \cup {(k :> v) : k \in AllKeys, v \in RawValues}
  \cup UNION {{(optionAliases[f][1] :> v) @@ (optionAliases[f][2] :> w) :
                 v \in AliasValues, w \in AliasValues} : f \in AliasedFields}
  \cup {("timeout" :> a) @@ ("max-retries" :> b) @@ ("port" :> c)
          @@ ("save-credential" :> d) @@ ("logLevel" :> Str(<<"D">>)) :
          a \in {Str(<<"5">>), Str(<<"x">>)}, b \in {NumInt(3), Bool(TRUE)},
          c \in {Str(<<"8", "0">>), NaN},
          d \in {Str(<<"1">>), Str(<<"m", "a", "y", "b", "e">>)}}

InitNorm ==
  /\ norm \in {[pc |-> "call", input |-> i, result |-> Idle] : i \in NormInputs}
  /\ processEnv \in {[PATH |-> <<"/", "b", "i", "n">>]}
  /\ proj = Idle
  /\ cli = Idle
  /\ req = Idle

Normalize ==
  /\ norm.pc = "call"
  /\ norm' = [pc |-> "returned", input |-> norm.input,
              result |-> normalizeCliOptions(norm.input)]
  /\ UNCHANGED <<processEnv, proj, cli, req>>

NextNorm == Normalize

SpecNorm == InitNorm /\ [][NextNorm]_vars

(***************************************************************************)
(* Properties of normalizeCliOptions (SpecNorm)                            *)
(***************************************************************************)
Count(errors, m) == Cardinality({i \in DOMAIN errors : errors[i] = m})

\* The raw value of a field, read off the input key by key.
RawOf(input, f) ==
  CASE f = "timeout" ->
         IF "timeout" \in DOMAIN input THEN input["timeout"] ELSE Undefined
    [] f = "port" -> IF "port" \in DOMAIN input THEN input["port"] ELSE Undefined
    [] f = "maxRetries" ->
         IF "maxRetries" \in DOMAIN input THEN input["maxRetries"]
         ELSE IF "max-retries" \in DOMAIN input THEN input["max-retries"]
         ELSE Undefined

NumericMessage ==
  [timeout |-> "Invalid numeric value for timeout.",
   maxRetries |-> "Invalid numeric value for max-retries.",
   port |-> "Invalid numeric value for port."]

\* s reads as the base-10 integer n: white space, an optional sign, a run of
\* digits that ends the string or is followed by a non-digit, the run being
\* the decimal digits of |n| after any leading zeros.
MatchesInt(s, n) ==
  \E i \in 0..Len(s), sg \in 0..1, j \in 1..Len(s), z \in 0..Len(s) :
    LET a == i + sg + 1
        abs == IF n < 0 THEN 0 - n ELSE n
    IN  /\ \A p \in 1..i : s[p] \in WhiteSpace
        /\ sg = 1 => s[i + 1] \in {"-", "+"}
        /\ a <= j
        /\ \A p \in a..j : IsDigit(s[p])
        /\ j = Len(s) \/ ~IsDigit(s[j + 1])
        /\ a + z <= j
        /\ \A p \in a..(a + z - 1) : s[p] = "0"
        /\ SubSeq(s, a + z, j) = NatToString(abs)
        /\ n < 0 => (sg = 1 /\ s[i + 1] = "-")
        /\ n > 0 => (sg = 0 \/ s[i + 1] = "+")

HasLeadingInt(s) ==
  \E i \in 0..Len(s), sg \in 0..1 :
    /\ \A p \in 1..i : s[p] \in WhiteSpace
    /\ i + sg + 1 <= Len(s)
    /\ sg = 1 => s[i + 1] \in {"-", "+"}
    /\ IsDigit(s[i + sg + 1])

NumericRule(raw, value, errors, msg) ==
  IF raw \in {Undefined, Null, Str(<<>>)}
  THEN value = Undefined /\ Count(errors, msg) = 0
  ELSE IF raw.t = "number" /\ raw.k # "nan"
  THEN value = raw /\ Count(errors, msg) = 0
  ELSE IF raw.t = "string" /\ HasLeadingInt(raw.s)
  THEN /\ value.t = "number" /\ value.k = "int"
       /\ MatchesInt(raw.s, value.n)
       /\ Count(errors, msg) = 0
  ELSE value = Undefined /\ Count(errors, msg) = 1

\* C7: numeric coercion of timeout, maxRetries and port: undefined, null and
\* the empty string give an absent field and no error; a number that is not
\* NaN is returned unchanged; a string that starts with a base-10 integer
\* gives that integer; every other raw value gives an absent field and exactly
\* one "Invalid numeric value for <name>." with the names timeout, max-retries
\* and port.
C7_NumericCoercion ==
  norm.pc = "returned" =>
    /\ \A f \in NumberFields :
         NumericRule(RawOf(norm.input, f), norm.result.options[f],
                     norm.result.errors, NumericMessage[f])
    /\ \A i \in DOMAIN norm.result.errors :
         \/ \E f \in NumberFields : norm.result.errors[i] = NumericMessage[f]
         \/ norm.result.errors[i] = "Invalid boolean value for save-credential."

\* A call whose timeout is a string that does not parse has returned.
C7_Witness ==
  /\ norm.pc = "returned"
  /\ "timeout" \in DOMAIN norm.input
  /\ norm.input["timeout"] = Str(<<"a", "1">>)
  /\ norm.result.errors = <<"Invalid numeric value for timeout.">>

\* The coercion of a field's raw value on its own.
CoerceField(f, raw) ==
  IF f \in StringFields THEN [value |-> coerceString(raw), errors |-> <<>>]
  ELSE IF f = "saveCredential" THEN coerceBoolean(raw, "save-credential", <<>>)
  ELSE coerceNumber(raw, IF f = "maxRetries" THEN "max-retries" ELSE f, <<>>)

\* C8: alias resolution: an input carrying an option under its hyphenated key
\* alone gives the field the value the same raw value gives under the
\* camel-case key alone; when both keys are present the field and the errors
\* are those of the camel-case key's value, whatever the hyphenated key holds.
C8_AliasResolution ==
  norm.pc = "returned" =>
    \A f \in AliasedFields :
      LET camel == optionAliases[f][1]
          hyphen == optionAliases[f][2]
      IN  /\ DOMAIN norm.input = {hyphen} =>
               /\ norm.result.options[f] = CoerceField(f, norm.input[hyphen]).value
               /\ norm.result.errors = CoerceField(f, norm.input[hyphen]).errors
          /\ DOMAIN norm.input = {camel} =>
               /\ norm.result.options[f] = CoerceField(f, norm.input[camel]).value
               /\ norm.result.errors = CoerceField(f, norm.input[camel]).errors
          /\ DOMAIN norm.input = {camel, hyphen} =>
               /\ norm.result.options[f] = CoerceField(f, norm.input[camel]).value
               /\ norm.result.errors = CoerceField(f, norm.input[camel]).errors

\* Both keys of maxRetries were given, with different values, and the call
\* returned the camel-case one.
C8_Witness ==
  /\ norm.pc = "returned"
  /\ DOMAIN norm.input = {"maxRetries", "max-retries"}
  /\ norm.input["maxRetries"] = Str(<<"5">>)
  /\ norm.input["max-retries"] = Str(<<"7">>)
  /\ norm.result.options.maxRetries = NumInt(5)

FieldMessage(f) ==
  IF f \in NumberFields THEN NumericMessage[f]
  ELSE IF f = "saveCredential" THEN "Invalid boolean value for save-credential."
  ELSE "no message"

IsAbsentOrString(v) == v = Undefined \/ v.t = "string"
IsAbsentOrBoolean(v) == v = Undefined \/ v.t = "boolean"

\* C9 as stated: every numeric field of the returned OptionsRecord is absent
\* or an integer, saveCredential is absent or a boolean, every string field is
\* absent or a string, and a field with an error message is absent.
C9_AsStated ==
  norm.pc = "returned" =>
    /\ \A f \in NumberFields :
         \/ norm.result.options[f] = Undefined
         \/ (norm.result.options[f].t = "number" /\ norm.result.options[f].k = "int")
    /\ IsAbsentOrBoolean(norm.result.options.saveCredential)
    /\ \A f \in StringFields : IsAbsentOrString(norm.result.options[f])
    /\ \A f \in OptionFields :
         Count(norm.result.errors, FieldMessage(f)) > 0 =>
           norm.result.options[f] = Undefined

\* C9 as amended: every numeric field of the returned OptionsRecord is absent
\* or a number that is not NaN; saveCredential is absent or a boolean; every
\* string field is absent or a string; a field with an error message is
\* absent; and with no errors the CONFIG_TIMEOUT, CONFIG_MAX_RETRIES and
\* CONFIG_PORT the projection writes are the decimal forms of those numbers,
\* never "NaN".
C9_TypeInvariant ==
  norm.pc = "returned" =>
    /\ \A f \in NumberFields :
         LET v == norm.result.options[f]
         IN  \/ v = Undefined
             \/ /\ v.t = "number" /\ v.k # "nan"
                /\ norm.result.errors = <<>> =>
                     LET e == setEnvFromOptions(norm.result.options, processEnv).env
                     IN  /\ ConfigKey[f] \in DOMAIN e
                         /\ e[ConfigKey[f]] # <<"N", "a", "N">>
                         /\ v.k = "int" => MatchesInt(e[ConfigKey[f]], v.n)
    /\ IsAbsentOrBoolean(norm.result.options.saveCredential)
    /\ \A f \in StringFields : IsAbsentOrString(norm.result.options[f])
    /\ \A f \in OptionFields :
         Count(norm.result.errors, FieldMessage(f)) > 0 =>
           norm.result.options[f] = Undefined

\* A JSON number that is no integer was given as port and was returned as is.
C9_Witness ==
  /\ norm.pc = "returned"
  /\ DOMAIN norm.input = {"port"}
  /\ norm.input["port"] = NumHalf(1)
  /\ norm.result.options.port = NumHalf(1)
  /\ norm.result.errors = <<>>

(***************************************************************************)
(* setEnvFromOptions as a state machine: Init draws the OptionsRecord and  *)
(* the ambient environment.                                                *)
(***************************************************************************)
FieldValues(f) ==
  IF f \in StringFields
  THEN {Undefined, Str(<<>>), Str(<<"a">>), Str(<<"/", "x">>),
        Str(<<".", ".", "/", "b">>)}
  ELSE IF f \in NumberFields
  THEN {Undefined, NumInt(0), NumInt(30), NumInt(0 - 1), NumHalf(1), NaN}
  ELSE {Undefined, Bool(TRUE), Bool(FALSE)}

ProjOptions ==
  UNION {{[AbsentOptions EXCEPT ![f] = v, ![g] = w] :
            v \in FieldValues(f), w \in FieldValues(g)} :
           f \in OptionFields, g \in OptionFields}
  \cup {[f \in OptionFields |->
           IF f \in StringFields THEN Str(<<"a">>)
           ELSE IF f \in NumberFields THEN NumInt(30) ELSE Bool(FALSE)]}

InitEnv ==
  /\ processEnv \in AmbientEnvs
  /\ proj \in {[pc |-> "call", options |-> o, env |-> Idle] : o \in ProjOptions}
  /\ norm = Idle
  /\ cli = Idle
  /\ req = Idle

Project ==
  /\ proj.pc = "call"
  /\ LET r == setEnvFromOptions(proj.options, processEnv)
     IN  /\ proj' = [pc |-> "returned", options |-> proj.options, env |-> r.env]
         /\ processEnv' = r.processEnv
  /\ UNCHANGED <<norm, cli, req>>

NextEnv == Project

SpecEnv == InitEnv /\ [][NextEnv]_vars

(***************************************************************************)
(* Properties of setEnvFromOptions (SpecEnv)                               *)
(***************************************************************************)
ExpectedValue(f, v) ==
  IF f = "fileIni" THEN resolve(cwd, v.s)
  ELSE IF f \in StringFields THEN v.s
  ELSE IF f \in NumberFields THEN NumberToString(v)
  ELSE BooleanToString(v.b)

\* env is ambient with exactly the keys of the fields W selects set to the
\* field's stringified value.
ProjectionRule(options, ambient, env, W(_, _)) ==
  LET written == {f \in OptionFields : W(f, options[f])}
      keys == {ConfigKey[f] : f \in written}
  IN  /\ DOMAIN env = DOMAIN ambient \cup keys
      /\ \A f \in written : env[ConfigKey[f]] = ExpectedValue(f, options[f])
      /\ \A k \in DOMAIN ambient \ keys : env[k] = ambient[k]

PresentField(f, v) == v # Undefined
PresentNonEmpty(f, v) ==
  IF f \in StringFields THEN v.t = "string" /\ v.s # <<>> ELSE v # Undefined

\* C5 as stated: the CONFIG_* key of a field is set to the field's stringified
\* value exactly when the field is not undefined, the empty string included;
\* every other key equals the ambient environment.
C5_AsStated ==
  proj.pc = "returned" =>
    ProjectionRule(proj.options, processEnv, proj.env, PresentField)

\* C5 as amended: the CONFIG_* key of a string field is set exactly when the
\* field is a non-empty string, the key of a numeric or boolean field exactly
\* when the field is not undefined (0 and false included); a key that is set
\* holds the field's stringified value (fileIni resolved against the working
\* directory); every other key equals the ambient environment.
C5_Projection ==
  proj.pc = "returned" =>
    ProjectionRule(proj.options, processEnv, proj.env, PresentNonEmpty)

\* The projection returned for an empty logLevel and a timeout of 0: the
\* timeout is written, the log level is not.
C5_Witness ==
  /\ proj.pc = "returned"
  /\ proj.options.logLevel = Str(<<>>)
  /\ proj.options.timeout = NumInt(0)
  /\ "CONFIG_LOG_LEVEL" \notin DOMAIN proj.env
  /\ "CONFIG_TIMEOUT" \in DOMAIN proj.env
  /\ proj.env["CONFIG_TIMEOUT"] = <<"0">>

(***************************************************************************)
(* The wct command line tool (src/cli/options.ts, from line 189)           *)
(***************************************************************************)
\* The flags of addCommonOptions that take the parseInt argument parser.
ParsedFlags == {"timeout", "max-retries", "port"}

\* The attribute commander stores a flag under.
FlagAttribute ==
  [f \in AllKeys |->
     CHOOSE o \in OptionFields : \E a \in DOMAIN optionAliases[o] : optionAliases[o][a] = f]

\* The options object commander hands to the action: a flag with the
\* parseInt parser holds what parseInt(val, 10) returned, --save-credential
\* holds true, any other flag its string; a flag not given has no attribute.
addCommonOptions(flags) ==
  [o \in {FlagAttribute[f] : f \in DOMAIN flags} |->
     LET f == CHOOSE g \in DOMAIN flags : FlagAttribute[g] = o
     IN  IF f \in ParsedFlags THEN parseInt(flags[f])
         ELSE IF f = "save-credential" THEN Bool(TRUE)
         ELSE Str(flags[f])]

\* Reading options.<field> of an object: undefined for a missing attribute.
OptionsOf(obj) ==
  [f \in OptionFields |-> IF f \in DOMAIN obj THEN obj[f] ELSE Undefined]

Flags(name, values) == {(name :> v) : v \in values} \cup {EmptyInput}

CliFlagSets ==
  {a @@ b @@ c @@ d @@ e @@ g :
     a \in Flags("timeout", {<<"3", "0">>, <<"a", "b", "c">>, <<"1", "2", "x">>}),
     b \in Flags("max-retries", {<<"3">>}),
     c \in Flags("port", {<<"x">>}),
     d \in Flags("file-ini", {<<"a">>}),
     e \in Flags("log-level", {<<"D">>}),
     g \in Flags("save-credential", {<<>>})}

CliArgvs ==
  {[command |-> "none", flags |-> EmptyInput]}
  \cup {[command |-> c, flags |-> f] :
          c \in {"test:issuance", "test:presentation"}, f \in CliFlagSets}

InitCli ==
  /\ processEnv \in AmbientEnvs
  /\ cli \in {[pc |-> "start", argv |-> a, options |-> Idle, env |-> Idle,
               command |-> "", exitCode |-> Null] : a \in CliArgvs}
  /\ norm = Idle
  /\ proj = Idle
  /\ req = Idle

\* program.parse(process.argv) finds the subcommand and calls its action.
CliParse ==
  /\ cli.pc = "start"
  /\ cli.argv.command # "none"
  /\ cli' = [cli EXCEPT !.pc = "action",
                        !.options = addCommonOptions(cli.argv.flags)]
  /\ UNCHANGED <<processEnv, norm, proj, req>>

\* No argument at all: program.outputHelp() and nothing else.
CliHelp ==
  /\ cli.pc = "start"
  /\ cli.argv.command = "none"
  /\ cli' = [cli EXCEPT !.pc = "exited", !.exitCode = NumInt(0)]
  /\ UNCHANGED <<processEnv, norm, proj, req>>

\* The action up to the start of execSync: the options object goes to
\* setEnvFromOptions as commander built it.
CliAction ==
  /\ cli.pc = "action"
  /\ LET r == setEnvFromOptions(OptionsOf(cli.options), processEnv)
     IN  /\ cli' = [cli EXCEPT !.pc = "running", !.env = r.env,
                               !.command = "pnpm " \o cli.argv.command]
         /\ processEnv' = r.processEnv
  /\ UNCHANGED <<norm, proj, req>>

\* execSync returns: the child exited with status 0.
CliExecReturn ==
  /\ cli.pc = "running"
  /\ cli' = [cli EXCEPT !.pc = "exited", !.exitCode = NumInt(0)]
  /\ UNCHANGED <<processEnv, norm, proj, req>>

\* execSync throws (non-zero status, signal, or the command could not be
\* started): process.exit(1).
CliExecThrow ==
  /\ cli.pc = "running"
  /\ cli' = [cli EXCEPT !.pc = "exited", !.exitCode = NumInt(1)]
  /\ UNCHANGED <<processEnv, norm, proj, req>>

NextCli == CliParse \/ CliHelp \/ CliAction \/ CliExecReturn \/ CliExecThrow

SpecCli == InitCli /\ [][NextCli]_vars

\* C4: the command line surface runs the HTTP surface's pipeline: the
\* environment its child receives is the projection of the OptionsRecord that
\* normalizeCliOptions returns for the flag values, with no validation error,
\* so a CONFIG_TIMEOUT, CONFIG_MAX_RETRIES or CONFIG_PORT that comes from a
\* flag is a value numeric coercion accepted.
C4_CliRunsCoercion ==
  cli.pc \in {"running", "exited"} /\ cli.argv.command # "none" =>
    LET n == normalizeCliOptions(cli.options)
    IN  /\ n.errors = <<>>
        /\ cli.env = setEnvFromOptions(n.options, processEnv).env
        /\ \A f \in NumberFields :
             f \in DOMAIN cli.options =>
               cli.env[ConfigKey[f]] =
                 NumberToString(coerceNumber(cli.options[f], f, <<>>).value)

(***************************************************************************)
(* The HTTP server (src/cli-server.ts)                                     *)
(***************************************************************************)
JsonObject(props) == [t |-> "object", props |-> props]

\* app.get / app.post of createCliServer: the script of each test route.
scriptName ==
  [p \in {"/test/issuance", "/test/presentation"} |->
     IF p = "/test/issuance" THEN "test:issuance" ELSE "test:presentation"]

\* The requests the clients send; a GET carries no body.
Requests ==
  {[method |-> "POST", path |-> "/test/issuance", query |-> EmptyInput,
    body |-> JsonObject(("timeout" :>
               Str(<<"n", "o", "t", "a", "n", "u", "m", "b", "e", "r">>)))],
   [method |-> "GET", path |-> "/test/issuance",
    query |-> ("timeout" :> Str(<<"3", "0">>))
                @@ ("log-level" :> Str(<<"D", "E", "B", "U", "G">>)),
    body |-> Undefined],
   [method |-> "POST", path |-> "/test/presentation",
    query |-> ("maxRetries" :> Str(<<"5">>)) @@ ("port" :> Str(<<"x">>)),
    body |-> JsonObject(("maxRetries" :> NumInt(7)) @@ ("port" :> NumInt(80))
                          @@ ("saveCredential" :> Bool(TRUE)))],
   [method |-> "GET", path |-> "/test/presentation",
    query |-> ("save-credential" :> Str(<<"m", "a", "y", "b", "e">>))
                @@ ("port" :> Str(<<"x">>)),
    body |-> Undefined]}

\* { ...req.query, ...(req.body ?? {}) }: the body's keys override the query's.
normalizeRequestParams(r) ==
  (IF r.body = Undefined THEN EmptyInput ELSE r.body.props) @@ r.query

\* The exit codes of a child that ran: 0, non-zero, or null after a signal.
ExitCodes == {NumInt(0), NumInt(1), Null}
\* The code of the 'close' event that follows a failed start (-ENOENT).
SpawnErrno == NumInt(0 - 2)
SpawnError == [isError |-> TRUE, message |-> "spawn pnpm ENOENT"]

NoChild == [st |-> "none", startFailed |-> FALSE, exitCode |-> Undefined]
NoPromise == [state |-> "none", value |-> Undefined]

IdleRequest ==
  [pc |-> "idle", request |-> Idle, normalized |-> Idle, env |-> Idle,
   spawned |-> 0, child |-> NoChild, stdout |-> <<>>, stderr |-> <<>>,
   chunks |-> 0, promise |-> NoPromise, responses |-> <<>>]

RequestIds == 1..NumRequests

\* resolve(value) / reject(error) of a promise: only the first call settles.
Settle(promise, state, value) ==
  IF promise.state = "pending" THEN [state |-> state, value |-> value] ELSE promise

\* Mutant of respondToResult: `if (result.exitCode)` in place of
\* `if (result.exitCode !== 0)`.
respondToResultTruthy(script, result) ==
  [status |-> IF Truthy(result.exitCode) THEN 500 ELSE 200,
   body |-> [command |-> script, exitCode |-> result.exitCode,
             stdout |-> result.stdout, stderr |-> result.stderr]]

\* The try branch of createTestHandler after the await.
respondToResult(script, result) ==
  [status |-> IF result.exitCode # NumInt(0) THEN 500 ELSE 200,
   body |-> [command |-> script, exitCode |-> result.exitCode,
             stdout |-> result.stdout, stderr |-> result.stderr]]

\* The catch branch of createTestHandler.
respondToError(error) ==
  [status |-> 500,
   body |-> [error |-> "command_execution_failed",
             message |-> IF error.isError THEN error.message ELSE "Unknown error"]]

\* The handler's continuation after `await runCommand(...)`: a microtask that
\* runs as soon as the event callback that settled the promise returns, before
\* any other event is delivered.
Continuation(q) ==
  IF q.pc = "awaiting" /\ q.promise.state = "resolved"
  THEN [q EXCEPT !.pc = "done",
                 !.responses = Append(@, respondToResult(scriptName[q.request.path],
                                                         q.promise.value))]
  ELSE IF q.pc = "awaiting" /\ q.promise.state = "rejected"
  THEN [q EXCEPT !.pc = "done",
                 !.responses = Append(@, respondToError(q.promise.value))]
  ELSE q

\* spawn("pnpm", [scriptName], {env, ...}) and the registration of the four
\* listeners: the child runs, or its start fails and 'error' is pending.
Spawned(q, env, started) ==
  [q EXCEPT !.env = env,
            !.spawned = @ + 1,
            !.child = [st |-> IF started THEN "running" ELSE "failed",
                       startFailed |-> ~started, exitCode |-> Undefined],
            !.stdout = <<>>, !.stderr = <<>>,
            !.promise = [state |-> "pending", value |-> Undefined],
            !.pc = "awaiting"]

\* Mutant of Handle: the 400 response is sent without `return`.
HandleNoReturn(i) ==
  /\ req[i].pc = "idle"
  /\ \E r \in Requests, started \in BOOLEAN :
       LET n == normalizeCliOptions(normalizeRequestParams(r))
           q == [req[i] EXCEPT !.request = r, !.normalized = n]
           e == setEnvFromOptions(n.options, processEnv)
           a == IF n.errors # <<>>
                THEN [q EXCEPT !.responses =
                        Append(@, [status |-> 400, body |-> [errors |-> n.errors]])]
                ELSE q
       IN  /\ req' = [req EXCEPT ![i] = Spawned(a, e.env, started)]
           /\ processEnv' = e.processEnv
  /\ UNCHANGED <<norm, proj, cli>>

\* A request arrives at a test route: createTestHandler runs up to its
\* first await (or to the 400 response).
Handle(i) ==
  /\ req[i].pc = "idle"
  /\ \E r \in Requests :
       LET n == normalizeCliOptions(normalizeRequestParams(r))
           q == [req[i] EXCEPT !.request = r, !.normalized = n]
           e == setEnvFromOptions(n.options, processEnv)
       IN  IF n.errors # <<>>
           THEN /\ req' = [req EXCEPT ![i] =
                             [q EXCEPT !.pc = "done",
                                       !.responses =
                                         Append(@, [status |-> 400,
                                                    body |-> [errors |-> n.errors]])]]
                /\ UNCHANGED processEnv
           ELSE /\ \E started \in BOOLEAN :
                     req' = [req EXCEPT ![i] = Spawned(q, e.env, started)]
                /\ processEnv' = e.processEnv
  /\ UNCHANGED <<norm, proj, cli>>

\* child.stdout.on("data") / child.stderr.on("data"): chunk.toString() is
\* appended.  The k-th chunk of a child is the decimal form of k.
ChildData(i) ==
  /\ req[i].child.st = "running"
  /\ req[i].chunks < MaxChunks
  /\ \E stream \in {"stdout", "stderr"} :
       LET chunk == NatToString(req[i].chunks + 1)
       IN  req' = [req EXCEPT ![i] =
                     [req[i] EXCEPT !.chunks = @ + 1,
                                    !.stdout = IF stream = "stdout" THEN @ \o chunk ELSE @,
                                    !.stderr = IF stream = "stderr" THEN @ \o chunk ELSE @]]
  /\ UNCHANGED <<processEnv, norm, proj, cli>>

\* Mutant of ChildError: the listener resolves with a result instead of
\* rejecting.
ChildErrorResolves(i) ==
  /\ req[i].child.st = "failed"
  /\ req' = [req EXCEPT ![i] =
               Continuation([req[i] EXCEPT
                 !.child.st = "errored",
                 !.promise = Settle(@, "resolved",
                                    [exitCode |-> Null, stdout |-> req[i].stdout,
                                     stderr |-> req[i].stderr])])]
  /\ UNCHANGED <<processEnv, norm, proj, cli>>

\* child.on("error"): the start of the child failed; reject(error).
ChildError(i) ==
  /\ req[i].child.st = "failed"
  /\ req' = [req EXCEPT ![i] =
               Continuation([req[i] EXCEPT
                 !.child.st = "errored",
                 !.promise = Settle(@, "rejected", SpawnError)])]
  /\ UNCHANGED <<processEnv, norm, proj, cli>>

\* The 'close' event and its listener, resolve({exitCode, stdout, stderr}).
Closed(q, code) ==
  Continuation([q EXCEPT
    !.child.st = "closed", !.child.exitCode = code,
    !.promise = Settle(@, "resolved",
                       [exitCode |-> code, stdout |-> q.stdout, stderr |-> q.stderr])])

\* Mutant of ChildClose: a child that did not exit with 0 is run again when
\* maxRetries allows it.
ChildCloseRetry(i) ==
  /\ \/ /\ req[i].child.st = "running"
        /\ \E code \in ExitCodes :
             IF code # NumInt(0) /\ req[i].normalized.options.maxRetries # Undefined
                /\ req[i].spawned < 2
             THEN req' = [req EXCEPT ![i] = Spawned(req[i], req[i].env, TRUE)]
             ELSE req' = [req EXCEPT ![i] = Closed(req[i], code)]
     \/ /\ req[i].child.st = "errored"
        /\ req' = [req EXCEPT ![i] = Closed(req[i], SpawnErrno)]
  /\ UNCHANGED <<processEnv, norm, proj, cli>>

\* child.on("close"): a child that ran closes with its exit code (null after
\* a signal); a child whose start failed closes after its 'error' event.
ChildClose(i) ==
  /\ \/ /\ req[i].child.st = "running"
        /\ \E code \in ExitCodes : req' = [req EXCEPT ![i] = Closed(req[i], code)]
     \/ /\ req[i].child.st = "errored"
        /\ req' = [req EXCEPT ![i] = Closed(req[i], SpawnErrno)]
  /\ UNCHANGED <<processEnv, norm, proj, cli>>

Init ==
  /\ processEnv \in AmbientEnvs
  /\ req = [i \in RequestIds |-> IdleRequest]
  /\ norm = Idle
  /\ proj = Idle
  /\ cli = Idle

Next ==
  \E i \in RequestIds : Handle(i) \/ ChildData(i) \/ ChildError(i) \/ ChildClose(i)

Spec == Init /\ [][Next]_vars

(***************************************************************************)
(* Properties of the HTTP server (Spec)                                    *)
(***************************************************************************)
Arrived(i) == req[i].pc # "idle"
Merged(i) == normalizeRequestParams(req[i].request)

\* C1: a request whose merged query and body make normalizeCliOptions return
\* errors is answered 400 with {errors} carrying that list, and no child is
\* ever spawned for it: no environment is built, no promise is created.
C1_ValidationShortCircuit ==
  \A i \in RequestIds :
    Arrived(i) /\ normalizeCliOptions(Merged(i)).errors # <<>> =>
      /\ req[i].pc = "done"
      /\ req[i].responses =
           <<[status |-> 400,
              body |-> [errors |-> normalizeCliOptions(Merged(i)).errors]]>>
      /\ req[i].spawned = 0
      /\ req[i].child = NoChild
      /\ req[i].env = Idle
      /\ req[i].promise = NoPromise

\* A request with two invalid options was answered while another request's
\* child is running.
C1_Witness ==
  \E i, j \in RequestIds :
    /\ req[i].responses =
         <<[status |-> 400,
            body |-> [errors |-> <<"Invalid numeric value for port.",
                                   "Invalid boolean value for save-credential.">>]]>>
    /\ req[i].spawned = 0
    /\ req[j].child.st = "running"

\* C2: once the child of a request has started and closed, the response has
\* status 200 exactly when the exit code is 0 and 500 for every other exit
\* code, null included, and its body is {command, exitCode, stdout, stderr}
\* with the route's script name.
C2_StatusFromExitCode ==
  \A i \in RequestIds :
    req[i].child.st = "closed" /\ ~req[i].child.startFailed =>
      /\ Len(req[i].responses) = 1
      /\ req[i].responses[1].status \in {200, 500}
      /\ req[i].responses[1].status = 200 <=> req[i].child.exitCode = NumInt(0)
      /\ req[i].child.exitCode = Null => req[i].responses[1].status = 500
      /\ req[i].responses[1].body =
           [command |-> IF req[i].request.path = "/test/issuance"
                        THEN "test:issuance" ELSE "test:presentation",
            exitCode |-> req[i].child.exitCode,
            stdout |-> req[i].stdout,
            stderr |-> req[i].stderr]

\* A child killed by a signal closed with exit code null after writing to
\* stderr, and the request was answered 500.
C2_Witness ==
  \E i \in RequestIds :
    /\ req[i].child.st = "closed"
    /\ req[i].child.exitCode = Null
    /\ req[i].stderr = <<"1">>
    /\ req[i].request.path = "/test/presentation"
    /\ req[i].responses[1].status = 500

\* C3: when the start of the child fails and it emits 'error' (followed or
\* not by 'close'), the runCommand promise is rejected, never resolved, and
\* the request is answered 500 with {error: "command_execution_failed",
\* message}, not with the {command, exitCode, stdout, stderr} shape.
C3_StartFailure ==
  \A i \in RequestIds :
    req[i].child.startFailed /\ req[i].child.st \in {"errored", "closed"} =>
      /\ req[i].promise.state = "rejected"
      /\ req[i].responses =
           <<[status |-> 500,
              body |-> [error |-> "command_execution_failed",
                        message |-> "spawn pnpm ENOENT"]]>>

\* A child whose start failed has emitted 'error' and then 'close'.
C3_Witness ==
  \E i \in RequestIds :
    /\ req[i].child.startFailed
    /\ req[i].child.st = "closed"
    /\ req[i].child.exitCode = SpawnErrno
    /\ req[i].promise.state = "rejected"
    /\ Len(req[i].responses) = 1

\* C6: under every interleaving of the requests, no request modifies the
\* ambient environment, and the environment of each request's child is the
\* ambient environment overlaid with the CONFIG_* keys of that request's
\* own options only.
C6_NoInterference ==
  /\ [](\A i \in RequestIds :
          req[i].spawned > 0 =>
            ProjectionRule(normalizeCliOptions(Merged(i)).options, processEnv,
                           req[i].env, PresentNonEmpty))
  /\ [][processEnv' = processEnv]_vars

\* Two requests with different options have their children running at the
\* same time, each with its own environment.
C6_Witness ==
  \E i, j \in RequestIds :
    /\ req[i].child.st = "running"
    /\ req[j].child.st = "running"
    /\ "CONFIG_LOG_LEVEL" \in DOMAIN req[i].env
    /\ req[i].env["CONFIG_LOG_LEVEL"] = <<"D", "E", "B", "U", "G">>
    /\ "CONFIG_MAX_RETRIES" \in DOMAIN req[j].env
    /\ req[j].env["CONFIG_MAX_RETRIES"] = <<"7">>
    /\ "CONFIG_MAX_RETRIES" \notin DOMAIN req[i].env
    /\ "CONFIG_LOG_LEVEL" \notin DOMAIN req[j].env

\* C10: a request spawns at most one child, exactly one when coercion
\* returns no errors and none otherwise; the child is never spawned again
\* after a non-zero exit, a signal or a start failure; at most one response
\* is ever sent, a finished request has exactly one, and for a spawned child
\* it is sent at the child's 'error' or 'close' event and not before.
C10_SingleDispatch ==
  /\ [](\A i \in RequestIds :
          /\ req[i].spawned <= 1
          /\ Len(req[i].responses) <= 1
          /\ Arrived(i) =>
               req[i].spawned =
                 IF normalizeCliOptions(Merged(i)).errors = <<>> THEN 1 ELSE 0
          /\ req[i].pc = "done" <=> Len(req[i].responses) = 1
          /\ req[i].spawned > 0 =>
               (Len(req[i].responses) = 1 <=> req[i].child.st \in {"errored", "closed"}))
  /\ [][\A i \in RequestIds :
          /\ req[i].spawned > 0 => req'[i].spawned = req[i].spawned
          /\ req[i].responses # <<>> => req'[i].responses = req[i].responses]_vars

\* A request with maxRetries 7 whose only child exited with code 1 is
\* finished with one 500 response.
C10_Witness ==
  \E i \in RequestIds :
    /\ req[i].pc = "done"
    /\ req[i].spawned = 1
    /\ req[i].normalized.options.maxRetries = NumInt(7)
    /\ req[i].child.exitCode = NumInt(1)
    /\ req[i].spawned = 1
    /\ Len(req[i].responses) = 1
    /\ req[i].responses[1].status = 500

====
